---- MODULE Spec2Model ----
(***************************************************************************)
(* hiburn action layer (src/hiburn/actions.py): the commands printenv,     *)
(* ping, download, upload and boot, run one after another against one      *)
(* U-Boot device.  Every collaborator call (client.printenv, client.setenv,*)
(* client.ping, client.bootm, the TFTP transfers, os.path.getsize) is one  *)
(* step: the call is made, the collaborator answers or raises, and the     *)
(* handler runs on to its next call.                                       *)
(***************************************************************************)
EXTENDS Integers, Sequences, FiniteSets, TLC

VARIABLES
    config,     \* the Config mapping handed to Action.__init__
    env,        \* the device's U-Boot environment: variable -> string
    cmd,        \* the action class being run ("none" between runs)
    args,       \* the parsed command-line arguments of the run
    fsize,      \* size of the file args.uimage on the host, NoFile if absent
    pc,         \* the next collaborator call of the running handler
    calls,      \* the collaborator calls made by this run, in order
    status,     \* "idle", "running", "ok" or "failed"
    handlers,   \* the handler instances built by this invocation
    raised,     \* the exception raised inside run(), NoError if none
    error,      \* the exception that left Action._run, NoError if none
    locals,     \* local variables of boot.run
    out,        \* lines printed or logged by this run
    runs,       \* number of process invocations so far
    cfgSeq,     \* history: successful configure_network calls in a row
    envOnce     \* history: env right after the first of those calls

vars == <<config, env, cmd, args, fsize, pc, calls, status, handlers, raised,
          error, locals, out, runs, cfgSeq, envOnce>>

-----------------------------------------------------------------------------
(* Bounds of the model *)

MaxRuns == 2
MaxBlockSize == 4
MaxBaseAddr == 2
MaxFileSize == 17

NoFile == 0 - 1

-----------------------------------------------------------------------------
(* Formatting, as str() and format() do it *)

Digit(d) ==
    CASE d = 0 -> "0" [] d = 1 -> "1" [] d = 2 -> "2" [] d = 3 -> "3"
      [] d = 4 -> "4" [] d = 5 -> "5" [] d = 6 -> "6" [] d = 7 -> "7"
      [] d = 8 -> "8" [] d = 9 -> "9" [] d = 10 -> "a" [] d = 11 -> "b"
      [] d = 12 -> "c" [] d = 13 -> "d" [] d = 14 -> "e" [] d = 15 -> "f"

RECURSIVE ToBase(_, _)
ToBase(n, b) == IF n < b THEN Digit(n) ELSE ToBase(n \div b, b) \o Digit(n % b)

\* "{}".format(n) for a non-negative int
ToDec(n) == ToBase(n, 10)

\* "{:#x}".format(n) for a non-negative int
ToHex(n) == "0x" \o ToBase(n, 16)

\* str() of an ipaddress.IPv4Address, kept here as its four octets
IpStr(ip) ==
    ToDec(ip[1]) \o "." \o ToDec(ip[2]) \o "." \o ToDec(ip[3]) \o "." \o ToDec(ip[4])

\* str.endswith
EndsWith(s, suffix) ==
    /\ Len(s) >= Len(suffix)
    /\ SubSeq(s, Len(s) - Len(suffix) + 1, Len(s)) = suffix

-----------------------------------------------------------------------------
(* Config and the values derived from it *)

Min(a, b) == IF a < b THEN a ELSE b
Max(a, b) == IF a > b THEN a ELSE b

RECURSIVE Pow2(_)
Pow2(k) == IF k = 0 THEN 1 ELSE 2 * Pow2(k - 1)

\* net.host is a CIDR string "a.b.c.d/p"; it is kept as address and prefix
HostChoices ==
    { [addr |-> <<192, 168, 1, 1>>, prefix |-> 24],
      [addr |-> <<10, 0, 0, 1>>, prefix |-> 20] }

TargetChoices == { <<192, 168, 1, 10>> }

Configs ==
    [ net : [host : HostChoices, target : TargetChoices],
      mem : [block_size : 1..MaxBlockSize, base_addr : 0..MaxBaseAddr,
             linux_size : {"256M"}, initrd_size : {1048576}],
      linux_console : {"ttyAMA0,115200"} ]

\* the netmask of an IPv4 network with the given prefix length
PrefixNetmask(prefix) ==
    [i \in 1..4 |-> 256 - Pow2(8 - Min(8, Max(0, prefix - 8 * (i - 1))))]

\* Action.host_ip_interface
host_ip_interface(cfg) ==
    [ip |-> cfg.net.host.addr, netmask |-> PrefixNetmask(cfg.net.host.prefix)]

\* Action.device_ip
device_ip(cfg) == cfg.net.target

\* variant: ipaddr and serverip take each other's value
NetworkVarsSwapped(cfg) ==
    [ipaddr |-> host_ip_interface(cfg).ip,
     netmask |-> host_ip_interface(cfg).netmask,
     serverip |-> device_ip(cfg)]

\* the keyword arguments configure_network passes to client.setenv
NetworkVars(cfg) ==
    [ipaddr |-> device_ip(cfg),
     netmask |-> host_ip_interface(cfg).netmask,
     serverip |-> host_ip_interface(cfg).ip]

\* utils.aligned_address(alignment, addr)
aligned_address(alignment, addr) ==
    CHOOSE m \in 0..(addr + alignment) :
        /\ m % alignment = 0
        /\ m >= addr
        /\ \A k \in 0..(addr + alignment) :
               (k % alignment = 0 /\ k >= addr) => m <= k

\* boot.run: uimage_addr
uimage_addr(cfg) == cfg.mem.base_addr

\* variant: the kernel size alone is aligned, mem.base_addr is left out
rootfs_addrWithoutBase(cfg, size) ==
    aligned_address(cfg.mem.block_size, size)

\* variant: the end of the kernel image is used as it is
rootfs_addrUnaligned(cfg, size) == uimage_addr(cfg) + size

\* boot.run: rootfs_addr, given os.path.getsize(args.uimage)
rootfs_addr(cfg, size) ==
    aligned_address(cfg.mem.block_size, uimage_addr(cfg) + size)

\* variant: initrd= is given the kernel address
BootargsOfKernelAddr(cfg, rootfs) ==
    "mem=" \o cfg.mem.linux_size \o " "
    \o "console=" \o cfg.linux_console \o " "
    \o "ip=" \o IpStr(device_ip(cfg)) \o ":" \o IpStr(host_ip_interface(cfg).ip)
       \o ":" \o IpStr(host_ip_interface(cfg).ip)
       \o ":" \o IpStr(host_ip_interface(cfg).netmask) \o ":camera1::off; "
    \o "mtdparts=hi_sfc:512k(boot) "
    \o "root=/dev/ram0 ro initrd=" \o ToHex(uimage_addr(cfg)) \o ","
       \o ToDec(cfg.mem.initrd_size)

\* boot.run: the bootargs string
BootargsOf(cfg, rootfs) ==
    "mem=" \o cfg.mem.linux_size \o " "
    \o "console=" \o cfg.linux_console \o " "
    \o "ip=" \o IpStr(device_ip(cfg)) \o ":" \o IpStr(host_ip_interface(cfg).ip)
       \o ":" \o IpStr(host_ip_interface(cfg).ip)
       \o ":" \o IpStr(host_ip_interface(cfg).netmask) \o ":camera1::off; "
    \o "mtdparts=hi_sfc:512k(boot) "
    \o "root=/dev/ram0 ro initrd=" \o ToHex(rootfs) \o ","
       \o ToDec(cfg.mem.initrd_size)

-----------------------------------------------------------------------------
(* The device client and the other collaborators *)

EnvVars == {"ipaddr", "netmask", "serverip", "bootargs", "bootdelay"}
Unset == ""

EmptyEnv == [v \in EnvVars |-> Unset]
StaleEnv ==
    [v \in EnvVars |->
        CASE v = "ipaddr" -> "172.16.0.5"
          [] v = "netmask" -> "255.255.0.0"
          [] v = "serverip" -> "172.16.0.1"
          [] v = "bootargs" -> "mem=64M"
          [] v = "bootdelay" -> "3"]

\* str() of a value passed to client.setenv
ValueStr(name, value) == IF name = "bootargs" THEN value ELSE IpStr(value)

\* client.setenv(**kw) on the device: every named variable is overwritten
Setenv(e, kw) ==
    [v \in EnvVars |-> IF v \in DOMAIN kw THEN ValueStr(v, kw[v]) ELSE e[v]]

\* client.printenv(): one "name=value" line per set variable
PrintenvLines(e) ==
    LET line(v) == IF e[v] = Unset THEN <<>> ELSE << v \o "=" \o e[v] >>
    IN line("bootargs") \o line("bootdelay") \o line("ipaddr")
       \o line("netmask") \o line("serverip")

\* what client.ping can return
PingResponses ==
    { <<>>,
      <<"PING 192.168.1.1", "Host 192.168.1.1 is alive">>,
      <<"PING 192.168.1.1", "host 192.168.1.1 is unreachable">>,
      <<"Host 192.168.1.1 is alive", "timeout">>,
      <<"is alive">>,
      <<"is alive ">>,
      <<"alive">>,
      <<"Host 192.168.1.1 is Alive">> }

\* exceptions
NoError == [kind |-> "none", msg |-> ""]
TransportError == [kind |-> "TransportError", msg |-> "no response from device"]
TransferError == [kind |-> "TransferError", msg |-> "tftp transfer failed"]
BootFailure == [kind |-> "BootFailure", msg |-> "bootm rejected"]
FileNotFound == [kind |-> "FileNotFoundError", msg |-> "no such file"]
IndexError == [kind |-> "IndexError", msg |-> "list index out of range"]
NetworkUnavailable == [kind |-> "RuntimeError", msg |-> "network is unavailable"]

\* one device or transfer call as seen by the handler: what was called, with
\* which arguments, what it returned and what it raised
Call(op, a, r, e) ==
    [op |-> op, arg |-> a, ret |-> r, ok |-> (e = NoError), err |-> e]

\* "\n".join(lines)
RECURSIVE JoinLines(_)
JoinLines(lines) ==
    IF lines = <<>> THEN ""
    ELSE IF Len(lines) = 1 THEN lines[1]
    ELSE lines[1] \o "\n" \o JoinLines(Tail(lines))

-----------------------------------------------------------------------------
(* The runs *)

NoArgs == <<>>
NoLocals == [uimage_addr |-> 0, rootfs_addr |-> 0, bootargs |-> ""]

Commands == {"printenv", "ping", "download", "upload", "boot"}

\* what the argument parser can hand to run() for each command
ArgsOf(c) ==
    CASE c = "download" -> [dst : {"./dump"}, addr : 0..1, size : {4}]
      [] c = "upload" -> [src : {"u-boot.bin"}, addr : 0..1]
      [] c = "boot" -> [uimage : {"uImage"}, rootfs : {"rootfs.img"}]
      [] OTHER -> {NoArgs}

\* variant: upload.run starts the transfer without configure_network
FirstCallSkipsNetwork(c) ==
    IF c = "printenv" THEN "printenv"
    ELSE IF c = "upload" THEN "upload"
    ELSE "configure_network"

\* variant: boot.run sizes the kernel image and goes on without configure_network
FirstCallBootSizesFirst(c) ==
    IF c = "printenv" THEN "printenv"
    ELSE IF c = "boot" THEN "getsize"
    ELSE "configure_network"

\* the first collaborator call of each handler
FirstCall(c) == IF c = "printenv" THEN "printenv" ELSE "configure_network"

\* the call that follows configure_network in each handler
AfterConfigure(c) ==
    CASE c = "ping" -> "ping"
      [] c = "download" -> "download"
      [] c = "upload" -> "upload"
      [] c = "boot" -> "getsize"

Init ==
    /\ config \in Configs
    /\ env \in {EmptyEnv, StaleEnv}
    /\ cmd = "none"
    /\ args = NoArgs
    /\ fsize = NoFile
    /\ pc = "idle"
    /\ calls = <<>>
    /\ status = "idle"
    /\ handlers = <<>>
    /\ raised = NoError
    /\ error = NoError
    /\ locals = NoLocals
    /\ out = <<>>
    /\ runs = 0
    /\ cfgSeq = 0
    /\ envOnce = EmptyEnv

\* the device client the handlers are bound to
Client == "client"

\* Action._run: cls(client, config).run(args), one instance, one call of run
NewHandlers(c, cfg) ==
    << [cls |-> c, client |-> Client, config |-> cfg, run_calls |-> 1] >>

\* variant: Action._run catches what run() raises and returns normally
PropagateSwallowed(e) == NoError

\* Action._run: what leaves _run when run() raised e; there is no try/except
Propagate(e) == e

\* run() returns, or an exception leaves it and then leaves Action._run
Return(e) ==
    /\ pc' = "done"
    /\ raised' = e
    /\ error' = Propagate(e)
    /\ status' = IF Propagate(e) = NoError THEN "ok" ELSE "failed"
    /\ UNCHANGED handlers

\* the run goes on to its next call
Goto(next) ==
    /\ pc' = next
    /\ UNCHANGED <<status, handlers, raised, error>>

\* history of the environment writes
NoteConfigured ==
    /\ cfgSeq' = cfgSeq + 1
    /\ envOnce' = IF cfgSeq = 0 THEN env' ELSE envOnce

NoteOtherWrite ==
    /\ cfgSeq' = 0
    /\ envOnce' = EmptyEnv

\* Action._run: the dispatched command builds cls(client, config) and calls run
Dispatch ==
    /\ status # "running"
    /\ runs < MaxRuns
    /\ \E c \in Commands :
         /\ cmd' = c
         /\ args' \in ArgsOf(c)
         /\ fsize' \in IF c = "boot" THEN {NoFile} \cup 0..MaxFileSize ELSE {NoFile}
         /\ pc' = FirstCall(c)
    /\ calls' = <<>>
    /\ status' = "running"
    /\ handlers' = NewHandlers(cmd', config)
    /\ raised' = NoError
    /\ error' = NoError
    /\ locals' = NoLocals
    /\ out' = <<>>
    /\ runs' = runs + 1
    /\ UNCHANGED <<config, env, cfgSeq, envOnce>>

\* variant: printenv.run configures the network before it reads the environment
PrintenvRunConfigures ==
    /\ status = "running" /\ pc = "printenv"
    /\ LET e == Setenv(env, NetworkVars(config))
       IN /\ calls' = calls \o << Call("setenv", NetworkVars(config), <<>>, NoError),
                                  Call("printenv", <<>>, PrintenvLines(e), NoError) >>
          /\ env' = e
          /\ out' = Append(out, JoinLines(PrintenvLines(e)))
          /\ Return(NoError)
    /\ UNCHANGED <<config, cmd, args, fsize, locals, runs, cfgSeq, envOnce>>

\* printenv.run
PrintenvRun ==
    /\ status = "running" /\ pc = "printenv"
    /\ \/ /\ calls' = Append(calls, Call("printenv", <<>>, PrintenvLines(env), NoError))
          /\ out' = Append(out, JoinLines(PrintenvLines(env)))
          /\ Return(NoError)
       \/ /\ calls' = Append(calls, Call("printenv", <<>>, <<>>, TransportError))
          /\ out' = out
          /\ Return(TransportError)
    /\ UNCHANGED <<config, env, cmd, args, fsize, locals, runs, cfgSeq, envOnce>>

\* variant: serverip is taken from the ipaddr the device had before the call
ConfiguredEnvFromDevice(e, cfg) ==
    [v \in EnvVars |->
        IF v = "serverip" THEN e["ipaddr"] ELSE Setenv(e, NetworkVars(cfg))[v]]

\* the environment after configure_network's setenv has returned
ConfiguredEnv(e, cfg) == Setenv(e, NetworkVars(cfg))

\* Action.configure_network, called first by ping, download, upload and boot
ConfigureNetwork ==
    /\ status = "running" /\ pc = "configure_network"
    /\ \/ /\ calls' = Append(calls, Call("setenv", NetworkVars(config), <<>>, NoError))
          /\ env' = ConfiguredEnv(env, config)
          /\ NoteConfigured
          /\ Goto(AfterConfigure(cmd))
       \/ \E written \in (SUBSET DOMAIN NetworkVars(config)) \ {DOMAIN NetworkVars(config)} :
          /\ calls' = Append(calls, Call("setenv", NetworkVars(config), <<>>, TransportError))
          /\ env' = Setenv(env, [v \in written |-> NetworkVars(config)[v]])
          /\ NoteOtherWrite
          /\ Return(TransportError)
    /\ UNCHANGED <<config, cmd, args, fsize, locals, out, runs>>

\* variant: the first line of the response is tested, [0] for [-1]
PingOutcomeFirstLine(result) ==
    IF result = <<>> THEN IndexError
    ELSE IF EndsWith(result[1], "is alive") THEN NoError
    ELSE NetworkUnavailable

\* ping.run after client.ping has returned: the [-1] and the suffix test
PingOutcome(result) ==
    IF result = <<>> THEN IndexError
    ELSE IF EndsWith(result[Len(result)], "is alive") THEN NoError
    ELSE NetworkUnavailable

\* variant: the device's own address is pinged
PingAddressDevice(cfg) == device_ip(cfg)

\* ping.run: the address handed to client.ping
PingAddress(cfg) == host_ip_interface(cfg).ip

\* ping.run, from client.ping on
PingRun ==
    /\ status = "running" /\ pc = "ping"
    /\ \/ \E result \in PingResponses :
            /\ calls' = Append(calls, Call("ping", PingAddress(config), result, NoError))
            /\ Return(PingOutcome(result))
       \/ /\ calls' = Append(calls, Call("ping", PingAddress(config), <<>>, TransportError))
          /\ Return(TransportError)
    /\ UNCHANGED <<config, env, cmd, args, fsize, locals, out, runs, cfgSeq, envOnce>>

\* the arguments of utils.download_files_via_tftp in download.run
DownloadBatch(cfg, a) ==
    [batch |-> << <<a.dst, a.addr, a.size>> >>,
     listen_ip |-> IpStr(host_ip_interface(cfg).ip)]

\* download.run, from utils.download_files_via_tftp on
DownloadRun ==
    /\ status = "running" /\ pc = "download"
    /\ \E e \in {NoError, TransferError} :
         /\ calls' = Append(calls, Call("download", DownloadBatch(config, args), <<>>, e))
         /\ Return(e)
    /\ UNCHANGED <<config, env, cmd, args, fsize, locals, out, runs, cfgSeq, envOnce>>

\* variant: the transfer listens on the device's address
UploadBatchListenDevice(cfg, entries) ==
    [batch |-> entries, listen_ip |-> IpStr(device_ip(cfg))]

\* Action.upload_files(*entries): the arguments of utils.upload_files_via_tftp
UploadBatch(cfg, entries) ==
    [batch |-> entries, listen_ip |-> IpStr(host_ip_interface(cfg).ip)]

\* variant: upload.run goes on to bootm at the upload address, as boot.run does
UploadRunThenBoots ==
    /\ status = "running" /\ pc = "upload"
    /\ \/ /\ calls' = Append(calls,
                Call("upload", UploadBatch(config, << <<args.src, args.addr>> >>), <<>>, NoError))
          /\ locals' = [locals EXCEPT !.uimage_addr = args.addr]
          /\ Goto("bootm")
       \/ /\ calls' = Append(calls,
                Call("upload", UploadBatch(config, << <<args.src, args.addr>> >>), <<>>, TransferError))
          /\ locals' = locals
          /\ Return(TransferError)
    /\ UNCHANGED <<config, env, cmd, args, fsize, out, runs, cfgSeq, envOnce>>

\* variant: a failed upload is tried once more before the failure is raised
UploadRunRetries ==
    /\ status = "running" /\ pc = "upload"
    /\ \E e \in {NoError, TransferError} :
         /\ calls' = Append(calls,
                Call("upload", UploadBatch(config, << <<args.src, args.addr>> >>), <<>>, e))
         /\ IF e # NoError /\ Len(calls) < 2 THEN Goto("upload") ELSE Return(e)
    /\ UNCHANGED <<config, env, cmd, args, fsize, locals, out, runs, cfgSeq, envOnce>>

\* upload.run, from self.upload_files on
UploadRun ==
    /\ status = "running" /\ pc = "upload"
    /\ \E e \in {NoError, TransferError} :
         /\ calls' = Append(calls,
                Call("upload", UploadBatch(config, << <<args.src, args.addr>> >>), <<>>, e))
         /\ Return(e)
    /\ UNCHANGED <<config, env, cmd, args, fsize, locals, out, runs, cfgSeq, envOnce>>

\* variant: the computed rootfs address is stored back as mem.base_addr
BootAddressesMovesBase ==
    /\ status = "running" /\ pc = "getsize"
    /\ fsize # NoFile
    /\ locals' = [locals EXCEPT !.uimage_addr = uimage_addr(config),
                                !.rootfs_addr = rootfs_addr(config, fsize)]
    /\ config' = [config EXCEPT !.mem.base_addr = Min(MaxBaseAddr, rootfs_addr(config, fsize))]
    /\ Goto("upload_images")
    /\ UNCHANGED <<env, cmd, args, fsize, calls, out, runs, cfgSeq, envOnce>>

\* boot.run: uimage_addr and rootfs_addr, with os.path.getsize(args.uimage)
BootAddresses ==
    /\ status = "running" /\ pc = "getsize"
    /\ \/ /\ fsize # NoFile
          /\ locals' = [locals EXCEPT !.uimage_addr = uimage_addr(config),
                                      !.rootfs_addr = rootfs_addr(config, fsize)]
          /\ Goto("upload_images")
       \/ /\ fsize = NoFile
          /\ locals' = [locals EXCEPT !.uimage_addr = uimage_addr(config)]
          /\ Return(FileNotFound)
    /\ UNCHANGED <<config, env, cmd, args, fsize, calls, out, runs, cfgSeq, envOnce>>

\* variant: a failure of upload_files is swallowed and boot.run goes on
BootUploadIgnoresFailure ==
    /\ status = "running" /\ pc = "upload_images"
    /\ LET entries == << <<args.uimage, locals.uimage_addr>>,
                         <<args.rootfs, locals.rootfs_addr>> >>
           bootargs == BootargsOf(config, locals.rootfs_addr)
       IN \E e \in {NoError, TransferError} :
             /\ calls' = Append(calls, Call("upload", UploadBatch(config, entries), <<>>, e))
             /\ locals' = [locals EXCEPT !.bootargs = bootargs]
             /\ out' = Append(out, "Load kernel with bootargs: " \o bootargs)
             /\ Goto("setenv_bootargs")
    /\ UNCHANGED <<config, env, cmd, args, fsize, runs, cfgSeq, envOnce>>

\* boot.run: upload_files of both images, then the bootargs string is built
BootUpload ==
    /\ status = "running" /\ pc = "upload_images"
    /\ LET entries == << <<args.uimage, locals.uimage_addr>>,
                         <<args.rootfs, locals.rootfs_addr>> >>
           bootargs == BootargsOf(config, locals.rootfs_addr)
       IN \/ /\ calls' = Append(calls, Call("upload", UploadBatch(config, entries), <<>>, NoError))
             /\ locals' = [locals EXCEPT !.bootargs = bootargs]
             /\ out' = Append(out, "Load kernel with bootargs: " \o bootargs)
             /\ Goto("setenv_bootargs")
          \/ /\ calls' = Append(calls, Call("upload", UploadBatch(config, entries), <<>>, TransferError))
             /\ UNCHANGED <<locals, out>>
             /\ Return(TransferError)
    /\ UNCHANGED <<config, env, cmd, args, fsize, runs, cfgSeq, envOnce>>

\* boot.run: client.setenv(bootargs=bootargs)
BootSetenv ==
    /\ status = "running" /\ pc = "setenv_bootargs"
    /\ LET kw == [bootargs |-> locals.bootargs]
       IN \/ /\ calls' = Append(calls, Call("setenv", kw, <<>>, NoError))
             /\ env' = Setenv(env, kw)
             /\ Goto("bootm")
          \/ /\ calls' = Append(calls, Call("setenv", kw, <<>>, TransportError))
             /\ env' = env
             /\ Return(TransportError)
    /\ NoteOtherWrite
    /\ UNCHANGED <<config, cmd, args, fsize, locals, out, runs>>

\* variant: bootm is given the rootfs address
BootmAddressRootfs(l) == l.rootfs_addr

\* the address boot.run hands to client.bootm
BootmAddress(l) == l.uimage_addr

\* variant: the closing log line is written whether or not bootm raised
BootBootmAlwaysLogs ==
    /\ status = "running" /\ pc = "bootm"
    /\ \E e \in {NoError, BootFailure, TransportError} :
          /\ calls' = Append(calls, Call("bootm", locals.uimage_addr, <<>>, e))
          /\ out' = Append(out, "OS seems successfully started")
          /\ Return(e)
    /\ UNCHANGED <<config, env, cmd, args, fsize, locals, runs, cfgSeq, envOnce>>

\* boot.run: client.bootm(uimage_addr) and the closing log line
BootBootm ==
    /\ status = "running" /\ pc = "bootm"
    /\ \/ /\ calls' = Append(calls, Call("bootm", BootmAddress(locals), <<>>, NoError))
          /\ out' = Append(out, "OS seems successfully started")
          /\ Return(NoError)
       \/ \E e \in {BootFailure, TransportError} :
          /\ calls' = Append(calls, Call("bootm", BootmAddress(locals), <<>>, e))
          /\ out' = out
          /\ Return(e)
    /\ UNCHANGED <<config, env, cmd, args, fsize, locals, runs, cfgSeq, envOnce>>

Next ==
    \/ Dispatch
    \/ PrintenvRun
    \/ ConfigureNetwork
    \/ PingRun
    \/ DownloadRun
    \/ UploadRun
    \/ BootAddresses
    \/ BootUpload
    \/ BootSetenv
    \/ BootBootm

Spec == Init /\ [][Next]_vars

TypeOK ==
    /\ config \in Configs
    /\ cmd \in Commands \cup {"none"}
    /\ status \in {"idle", "running", "ok", "failed"}
    /\ runs \in 0..MaxRuns
    /\ Len(calls) <= 4

-----------------------------------------------------------------------------
(* Properties *)

NetNames == {"ipaddr", "netmask", "serverip"}

IsNetworkWrite(c) == c.op = "setenv" /\ DOMAIN c.arg = NetNames
IsBootargsWrite(c) == c.op = "setenv" /\ DOMAIN c.arg = {"bootargs"}
IsTransfer(c) == c.op \in {"upload", "download"}

LastCall == calls[Len(calls)]

\* C1: in every run, a transfer is only started after configure_network's
\* environment write has been made and has returned, and bootm is only
\* invoked after the upload batch call has returned.
C1_NetworkThenTransferThenBoot ==
    \A i \in 1..Len(calls) :
        /\ IsTransfer(calls[i]) =>
              \E j \in 1..(i - 1) : IsNetworkWrite(calls[j]) /\ calls[j].ok
        /\ calls[i].op = "bootm" =>
              \E j \in 1..(i - 1) : calls[j].op = "upload" /\ calls[j].ok

C1_Witness ==
    /\ cmd = "boot"
    /\ Len(calls) = 4
    /\ calls[4].op = "bootm"
    /\ calls[2].op = "upload"
    /\ IsNetworkWrite(calls[1])

\* the upload call of a boot run, once it has been made
BootUploaded == cmd = "boot" /\ Len(calls) >= 2 /\ calls[2].op = "upload"
UploadedRootfsAddr == calls[2].arg.batch[2][2]
UploadedUimageAddr == calls[2].arg.batch[1][2]

\* C2: the rootfs address of the boot action is the smallest multiple of
\* block_size that is >= base_addr + kernel size: a multiple of block_size,
\* not below base_addr + size, less than one block above it, and equal to
\* base_addr + size when that is already a multiple.
C2_RootfsAddrIsAlignUp ==
    BootUploaded =>
        LET bs == config.mem.block_size
            end == config.mem.base_addr + fsize
            r == UploadedRootfsAddr
        IN /\ r % bs = 0
           /\ r >= end
           /\ r - bs < end
           /\ (end % bs = 0 => r = end)

C2_Witness ==
    /\ BootUploaded
    /\ config.mem.base_addr > 0
    /\ (config.mem.base_addr + fsize) % config.mem.block_size # 0
    /\ UploadedRootfsAddr > config.mem.base_addr + fsize

\* C3: boot uploads the kernel image to mem.base_addr, no address of
\* [base_addr, base_addr + kernel size) reaches the rootfs address, and the
\* rootfs address is on a block_size boundary.
C3_KernelAndRootfsDisjoint ==
    BootUploaded =>
        /\ UploadedUimageAddr = config.mem.base_addr
        /\ \A a \in UploadedUimageAddr..(UploadedUimageAddr + fsize - 1) :
               a < UploadedRootfsAddr
        /\ \E k \in 0..UploadedRootfsAddr :
               UploadedRootfsAddr = k * config.mem.block_size

C3_Witness ==
    /\ BootUploaded
    /\ fsize > config.mem.block_size
    /\ config.mem.block_size > 1
    /\ config.mem.base_addr > 0

\* s ends with suffix: s is some prefix of s followed by suffix
HasSuffix(s, suffix) ==
    \E k \in 0..Len(s) : SubSeq(s, 1, k) \o suffix = s

\* C4: when the device ping returned lines, the ping action completes
\* without error exactly if the last line ends with "is alive", and fails
\* with the message "network is unavailable" if it does not; a ping action
\* never completes without error otherwise.
C4_PingSucceedsIffAlive ==
    (cmd = "ping" /\ pc = "done") =>
        /\ (LastCall.op = "ping" /\ LastCall.ok /\ LastCall.ret # <<>>) =>
              LET last == LastCall.ret[Len(LastCall.ret)]
              IN /\ status = "ok" <=> HasSuffix(last, "is alive")
                 /\ ~HasSuffix(last, "is alive") =>
                        status = "failed" /\ error.msg = "network is unavailable"
        /\ status = "ok" =>
              /\ LastCall.op = "ping" /\ LastCall.ok /\ LastCall.ret # <<>>
              /\ HasSuffix(LastCall.ret[Len(LastCall.ret)], "is alive")

C4_Witness ==
    /\ cmd = "ping" /\ pc = "done" /\ status = "failed"
    /\ LastCall.op = "ping" /\ LastCall.ok
    /\ LastCall.ret = <<"Host 192.168.1.1 is alive", "timeout">>

\* the netmask of net.host, written out for the prefixes of HostChoices
DottedNetmask(prefix) ==
    CASE prefix = 24 -> <<255, 255, 255, 0>>
      [] prefix = 20 -> <<255, 255, 240, 0>>

\* C5: a call of configure_network makes exactly one device call, an
\* environment write of exactly ipaddr = net.target, netmask = the netmask
\* of net.host's prefix and serverip = the address of net.host.
C5_ConfigureWritesThreeVars ==
    [][(pc = "configure_network" /\ pc' # "configure_network") =>
          /\ Len(calls') = Len(calls) + 1
          /\ SubSeq(calls', 1, Len(calls)) = calls
          /\ LET c == calls'[Len(calls')]
             IN /\ c.op = "setenv"
                /\ DOMAIN c.arg = {"ipaddr", "netmask", "serverip"}
                /\ c.arg.ipaddr = config.net.target
                /\ c.arg.netmask = DottedNetmask(config.net.host.prefix)
                /\ c.arg.serverip = config.net.host.addr]_vars

C5_Witness ==
    /\ Len(calls) >= 1
    /\ calls[1].op = "setenv" /\ calls[1].ok
    /\ config.net.host.prefix = 20
    /\ calls[1].arg.netmask = <<255, 255, 240, 0>>
    /\ env["netmask"] = "255.255.240.0"

\* C6: when configure_network has been called twice in a row with the same
\* Config, the device environment is the one the first call left.
C6_ConfigureIdempotent ==
    cfgSeq >= 2 => env = envOnce

C6_Witness ==
    /\ cfgSeq >= 2
    /\ env # StaleEnv
    /\ env["bootdelay"] = "3"
    /\ env["ipaddr"] = "192.168.1.10"

\* the bootargs string spelled out for a rootfs address
SpelledBootargs(rootfs) ==
    LET host == config.net.host.addr
        dot(ip) == ToDec(ip[1]) \o "." \o ToDec(ip[2]) \o "." \o ToDec(ip[3])
                   \o "." \o ToDec(ip[4])
        pieces == << "mem=" \o config.mem.linux_size \o " ",
                     "console=" \o config.linux_console \o " ",
                     "ip=" \o dot(config.net.target) \o ":" \o dot(host) \o ":"
                        \o dot(host) \o ":"
                        \o dot(DottedNetmask(config.net.host.prefix))
                        \o ":camera1::off; ",
                     "mtdparts=hi_sfc:512k(boot) ",
                     "root=/dev/ram0 ro initrd=" \o ToHex(rootfs) \o ","
                        \o ToDec(config.mem.initrd_size) >>
    IN pieces[1] \o pieces[2] \o pieces[3] \o pieces[4] \o pieces[5]

\* C7: the bootargs string boot writes is "mem=<linux_size> ",
\* "console=<linux_console> ", "ip=<device>:<host>:<host>:<netmask>:camera1::off; ",
\* "mtdparts=hi_sfc:512k(boot) " and "root=/dev/ram0 ro initrd=<hex>,<initrd_size>"
\* in this order, with the address the rootfs image was uploaded to.
C7_BootargsString ==
    \A i \in 1..Len(calls) :
        IsBootargsWrite(calls[i]) =>
            /\ BootUploaded
            /\ calls[i].arg.bootargs = SpelledBootargs(UploadedRootfsAddr)
            /\ (UploadedRootfsAddr = 18 /\ config.net.host.prefix = 24) =>
                  calls[i].arg.bootargs =
                     "mem=256M console=ttyAMA0,115200 "
                     \o "ip=192.168.1.10:192.168.1.1:192.168.1.1:255.255.255.0:camera1::off; "
                     \o "mtdparts=hi_sfc:512k(boot) "
                     \o "root=/dev/ram0 ro initrd=0x12,1048576"

C7_Witness ==
    /\ Len(calls) >= 3
    /\ IsBootargsWrite(calls[3])
    /\ UploadedRootfsAddr = 18
    /\ UploadedRootfsAddr # UploadedUimageAddr
    /\ config.net.host.prefix = 24
    /\ env["bootargs"] = calls[3].arg.bootargs

\* C8: boot invokes bootm only after it has written bootargs to the device,
\* and invokes it at mem.base_addr, the address the kernel image was
\* uploaded to.
C8_BootargsThenBootm ==
    \A i \in 1..Len(calls) :
        calls[i].op = "bootm" =>
            /\ \E j \in 1..(i - 1) :
                   /\ IsBootargsWrite(calls[j]) /\ calls[j].ok
                   /\ env["bootargs"] = calls[j].arg.bootargs
            /\ calls[i].arg = config.mem.base_addr
            /\ BootUploaded /\ calls[i].arg = UploadedUimageAddr

C8_Witness ==
    /\ Len(calls) = 4
    /\ calls[4].op = "bootm"
    /\ calls[4].arg > 0
    /\ UploadedRootfsAddr # UploadedUimageAddr
    /\ env["bootargs"] # "mem=64M"

SuccessMessage == "OS seems successfully started"

Emitted(m) == \E i \in 1..Len(out) : out[i] = m

\* C9: boot emits "OS seems successfully started" only in a run whose bootm
\* call returned without failure; a run in which the network configuration,
\* the upload, the bootargs write or bootm failed never emits it.
C9_SuccessOnlyAfterBootm ==
    /\ Emitted(SuccessMessage) =>
          /\ cmd = "boot"
          /\ Len(calls) = 4
          /\ LastCall.op = "bootm" /\ LastCall.ok
          /\ \A i \in 1..Len(calls) : calls[i].ok
    /\ (status = "failed" \/ \E i \in 1..Len(calls) : ~calls[i].ok) =>
          ~Emitted(SuccessMessage)

C9_Witness ==
    /\ cmd = "boot" /\ status = "ok"
    /\ Emitted(SuccessMessage)
    /\ LastCall.op = "bootm" /\ LastCall.ok

\* C10: a failed collaborator call is the last call of its run: the run is
\* over and failed with exactly the failure the call raised, so nothing is
\* retried, rolled back or cleaned up; a boot whose upload failed writes no
\* bootargs and invokes no bootm.
C10_FailureAborts ==
    /\ \A i \in 1..Len(calls) :
          ~calls[i].ok =>
              /\ i = Len(calls)
              /\ pc = "done" /\ status = "failed"
              /\ error = calls[i].err
    /\ (BootUploaded /\ ~calls[2].ok) =>
          \A i \in 1..Len(calls) :
              ~IsBootargsWrite(calls[i]) /\ calls[i].op # "bootm"

C10_Witness ==
    /\ BootUploaded
    /\ ~calls[2].ok
    /\ status = "failed"
    /\ error = TransferError

\* an IPv4 address in dotted-quad text
Dotted(ip) ==
    ToDec(ip[1]) \o "." \o ToDec(ip[2]) \o "." \o ToDec(ip[3]) \o "." \o ToDec(ip[4])

TransferCalls == {i \in 1..Len(calls) : IsTransfer(calls[i])}

\* C11: boot makes exactly one upload call, with the batch
\* ((uimage, uimageAddr), (rootfs, rootfsAddr)) in this order; upload makes
\* exactly one with ((src, addr)); download exactly one with
\* ((dst, addr, size)); each listens on the address of net.host.
C11_OneBatchPerRun ==
    /\ Cardinality(TransferCalls) <= 1
    /\ (status = "ok" /\ cmd \in {"boot", "upload", "download"}) =>
          Cardinality(TransferCalls) = 1
    /\ \A i \in TransferCalls :
          /\ calls[i].arg.listen_ip = Dotted(config.net.host.addr)
          /\ cmd \in {"boot", "upload", "download"}
          /\ cmd = "boot" =>
                /\ calls[i].op = "upload"
                /\ calls[i].arg.batch =
                      << <<args.uimage, config.mem.base_addr>>,
                         <<args.rootfs, locals.rootfs_addr>> >>
          /\ cmd = "upload" =>
                /\ calls[i].op = "upload"
                /\ calls[i].arg.batch = << <<args.src, args.addr>> >>
          /\ cmd = "download" =>
                /\ calls[i].op = "download"
                /\ calls[i].arg.batch = << <<args.dst, args.addr, args.size>> >>

C11_Witness ==
    /\ cmd = "boot" /\ status = "ok"
    /\ Cardinality(TransferCalls) = 1
    /\ calls[2].arg.batch[1] = <<"uImage", 2>>
    /\ calls[2].arg.batch[2] = <<"rootfs.img", 8>>
    /\ calls[2].arg.listen_ip = "10.0.0.1"

\* C12: a dispatched command has exactly one handler instance, bound to the
\* device client and the Config, whose run was invoked once, and what run
\* raised is what the dispatch call fails with.
C12_DispatchPropagates ==
    /\ status # "idle" =>
          /\ Len(handlers) = 1
          /\ handlers[1].cls = cmd
          /\ handlers[1].client = Client
          /\ handlers[1].config = config
          /\ handlers[1].run_calls = 1
    /\ pc = "done" =>
          /\ error = raised
          /\ status = "failed" <=> raised # NoError
          /\ (calls # <<>> /\ ~LastCall.ok) => error = LastCall.err

C12_Witness ==
    /\ pc = "done" /\ status = "failed"
    /\ Len(handlers) = 1
    /\ raised = NetworkUnavailable
    /\ error = NetworkUnavailable

\* C13: no step of any action changes the Config, and every value a run has
\* read from it (the addresses written to the device, the pinged address,
\* the listen address) is the one the Config holds.
C13_ConfigNeverModified ==
    /\ [][config' = config]_vars
    /\ [](\A i \in 1..Len(calls) :
            /\ IsNetworkWrite(calls[i]) =>
                  /\ calls[i].arg.ipaddr = config.net.target
                  /\ calls[i].arg.serverip = config.net.host.addr
                  /\ calls[i].arg.netmask = DottedNetmask(config.net.host.prefix)
            /\ calls[i].op = "ping" => calls[i].arg = config.net.host.addr
            /\ IsTransfer(calls[i]) =>
                  calls[i].arg.listen_ip = Dotted(config.net.host.addr)
            /\ calls[i].op = "bootm" => calls[i].arg = config.mem.base_addr)

C13_Witness ==
    /\ cmd = "boot" /\ status = "failed"
    /\ Len(calls) = 4
    /\ runs = 2
    /\ config.mem.base_addr = 1

\* the run is a boot whose os.path.getsize(args.uimage) raised
SizeFailed == cmd = "boot" /\ pc = "done" /\ raised = FileNotFound

\* C14 as stated: boot determines the kernel image size before it calls
\* configure_network, so a failure to determine it happens before any
\* environment write has been issued.
C14_SizeFailureBeforeAnyWrite ==
    SizeFailed => \A i \in 1..Len(calls) : calls[i].op # "setenv"

\* C14, amended: boot calls configure_network first and computes the
\* destination addresses after it and before the upload, so a failure to
\* determine the kernel image size happens when the network environment
\* write, and no other call, has been made and has returned.
C14_SizeFailureAfterNetworkWrite ==
    /\ (cmd = "boot" /\ pc = "configure_network") =>
          calls = <<>> /\ locals = NoLocals
    /\ (cmd = "boot" /\ pc = "getsize") =>
          Len(calls) = 1 /\ IsNetworkWrite(calls[1]) /\ calls[1].ok
    /\ SizeFailed =>
          /\ Len(calls) = 1 /\ IsNetworkWrite(calls[1]) /\ calls[1].ok
          /\ env["serverip"] = Dotted(config.net.host.addr)
          /\ status = "failed"

C14_Witness ==
    /\ SizeFailed
    /\ fsize = NoFile
    /\ Len(calls) = 1
    /\ env["ipaddr"] = "192.168.1.10"
    /\ env["bootargs"] = Unset

\* the ping call of this run has returned a response
PingReturned ==
    cmd = "ping" /\ pc = "done" /\ calls # <<>> /\ LastCall.op = "ping" /\ LastCall.ok

\* C15: whatever response the device ping returned, the empty one included,
\* a ping action that does not succeed fails with the error
\* "network is unavailable" and with no other kind of error.
C15_PingFailsOnlyUnavailable ==
    (PingReturned /\ status # "ok") => error = NetworkUnavailable

PingCalls == {i \in 1..Len(calls) : calls[i].op = "ping"}

\* C16: the ping action pings only after the network configuration has
\* been written to the device, pings exactly once, and pings the host
\* interface address, the value written as serverip.
C16_PingAfterConfigureAtHost ==
    /\ Cardinality(PingCalls) <= 1
    /\ (cmd = "ping" /\ pc = "done" /\ calls[1].ok) => Cardinality(PingCalls) = 1
    /\ \A i \in PingCalls :
          /\ cmd = "ping"
          /\ i = 2
          /\ IsNetworkWrite(calls[1]) /\ calls[1].ok
          /\ env["serverip"] = Dotted(calls[i].arg)
          /\ calls[i].arg = calls[1].arg.serverip
          /\ calls[i].arg = config.net.host.addr

C16_Witness ==
    /\ cmd = "ping" /\ status = "ok"
    /\ Cardinality(PingCalls) = 1
    /\ calls[2].arg = <<10, 0, 0, 1>>
    /\ calls[2].arg # config.net.target
    /\ env["serverip"] = "10.0.0.1"

\* the calls of a run that succeeds, by command
FullRun(c) ==
    CASE c = "boot" -> <<"setenv", "upload", "setenv", "bootm">>
      [] c = "upload" -> <<"setenv", "upload">>
      [] c = "download" -> <<"setenv", "download">>

Ops == [i \in 1..Len(calls) |-> calls[i].op]

IsPrefix(p, q) == Len(p) <= Len(q) /\ SubSeq(q, 1, Len(p)) = p

TransferRun == cmd \in {"boot", "upload", "download"}

\* the calls made are the first calls of a successful run, in its order,
\* the environment writes being the network one and then the bootargs one
InOrder ==
    /\ IsPrefix(Ops, FullRun(cmd))
    /\ Len(calls) >= 1 => IsNetworkWrite(calls[1])
    /\ Len(calls) >= 3 => IsBootargsWrite(calls[3])
    /\ \A i \in 1..(Len(calls) - 1) : calls[i].ok

C18_OnlyBootBoots ==
    /\ [](cmd # "boot" =>
            \A i \in 1..Len(calls) :
                calls[i].op # "bootm" /\ ~IsBootargsWrite(calls[i]))
    /\ [][(cmd' # "boot" /\ runs' = runs) => env'["bootargs"] = env["bootargs"]]_vars

C18_Witness ==
    /\ cmd = "upload" /\ status = "ok"
    /\ Len(calls) = 2
    /\ env["bootargs"] = "mem=64M"
    /\ env["ipaddr"] = "192.168.1.10"

\* C19: printenv makes one call, a read of the environment, and no
\* environment write, ping, transfer or boot call; the device environment
\* is the same after the run as before it.
C19_PrintenvReadOnly ==
    /\ [](cmd = "printenv" =>
            /\ Len(calls) <= 1
            /\ \A i \in 1..Len(calls) : calls[i].op = "printenv"
            /\ pc = "done" => Len(calls) = 1)
    /\ [][cmd' = "printenv" => env' = env]_vars

C19_Witness ==
    /\ cmd = "printenv" /\ status = "ok"
    /\ Len(calls) = 1
    /\ calls[1].ret # <<>>
    /\ env = StaleEnv

====
